---- MODULE Spec2Model ----
(***************************************************************************)
(* aisqlpp::connection (include/aisql_connection.hpp): the generic result  *)
(* binding engine (raw_query_value) and the three templated query          *)
(* operations execute_query_column / execute_query_value /                 *)
(* execute_query_values, plus create_prep_stmt.                            *)
(*                                                                         *)
(* One call is a chain of driver calls (isValid, reconnect, execute,       *)
(* getResultSet, rowsCount, next, getDouble/getInt64/getUInt64/getString). *)
(* Each driver call is one step of the model; the driver's answer (a       *)
(* value, or a thrown sql::SQLException) is chosen by the environment.     *)
(***************************************************************************)
EXTENDS Integers, Sequences, FiniteSets, TLC

\* ------------------------------------------------------------------ bounds
\* most rows a result set of the model holds
MaxRows == 3
\* most output slots passed to execute_query_values
MaxSlots == 3

\* ------------------------------------------------------------------ values
\* Integers are bit patterns cut into 16-bit limbs, most significant first:
\* a 64-bit value is 4 limbs, a 32-bit value 2 limbs.

\* The slot types the model instantiates the templates with.  "short" and
\* "char" compile (every static_cast of the typeid chain is well formed for
\* them) but are outside the chain: the unsupported types.
FloatTypes == {"float", "double"}
SignedTypes == {"int", "int64_t"}
UnsignedTypes == {"unsigned int", "uint64_t"}
UnsupportedTypes == {"short", "char"}
SupportedTypes == FloatTypes \cup SignedTypes \cup UnsignedTypes \cup {"string"}
Types == SupportedTypes \cup UnsupportedTypes

\* A double is sign, biased 11-bit exponent and a 52-bit fraction in four
\* 13-bit limbs; a float is sign, biased 8-bit exponent and a 23-bit fraction
\* in a 13-bit and a 10-bit limb.
Dbl(s, e, f) == [s |-> s, e |-> e, f |-> f]

\* static_cast<float>(double), round to nearest even; defined for zero and
\* for doubles whose result is a normal float or overflows to infinity
\* (the doubles of SampleCells).
DoubleToFloat(d) ==
    IF d.e = 0
    THEN [s |-> d.s, e |-> 0, f |-> <<0, 0>>]
    ELSE LET top == d.f[1] * 1024 + (d.f[2] \div 8)
             rest3 == d.f[2] % 8
             guard == rest3 >= 4
             sticky == (rest3 % 4 # 0) \/ d.f[3] # 0 \/ d.f[4] # 0
             up == guard /\ (sticky \/ top % 2 = 1)
             m == IF up THEN top + 1 ELSE top
             carry == m = 8388608
             m2 == IF carry THEN 0 ELSE m
             ex == (d.e - 1023) + (IF carry THEN 1 ELSE 0)
         IN  IF ex > 127
             THEN [s |-> d.s, e |-> 255, f |-> <<0, 0>>]
             ELSE [s |-> d.s, e |-> ex + 127, f |-> <<m2 \div 1024, m2 % 1024>>]

\* faulty variant: the 32-bit casts go through a 16-bit intermediate
NarrowingCast(T, x) ==
    CASE T = "float" -> DoubleToFloat(x)
      [] T \in {"int", "unsigned int"} -> <<0, x[4]>>
      [] T = "short" -> <<x[4]>>
      [] T = "char" -> <<x[4] % 256>>
      [] OTHER -> x

\* static_cast<T>(x) of the value x an accessor returned, lines 91, 96, 101, 118:
\* a double narrows to float, a 64-bit integer keeps its low 32 bits for
\* int / unsigned int (its low 16 for short, its low 8 for char), every
\* other cast keeps the value.
static_cast(T, x) ==
    CASE T = "float" -> DoubleToFloat(x)
      [] T = "double" -> x
      [] T \in {"int", "unsigned int"} -> <<x[3], x[4]>>
      [] T \in {"int64_t", "uint64_t"} -> x
      [] T = "string" -> x
      [] T = "short" -> <<x[4]>>
      [] T = "char" -> <<x[4] % 256>>

\* faulty variant: a catch-all coercion through getInt64 instead of the final else
CoercingAccessor(T) ==
    CASE T \in {"float", "double"} -> "getDouble"
      [] T \in {"unsigned int", "uint64_t"} -> "getUInt64"
      [] T = "string" -> "getString"
      [] OTHER -> "getInt64"

\* faulty variant: the signed and the unsigned branch are exchanged
SwappedAccessor(T) ==
    CASE T \in {"float", "double"} -> "getDouble"
      [] T \in {"int", "int64_t"} -> "getUInt64"
      [] T \in {"unsigned int", "uint64_t"} -> "getInt64"
      [] T = "string" -> "getString"
      [] OTHER -> "none"

\* The accessor the typeid chain of raw_query_value picks for slot type T
\* ("none": the final else branch), and the specialization for std::string.
Accessor(T) ==
    CASE T \in {"float", "double"} -> "getDouble"
      [] T \in {"int", "int64_t"} -> "getInt64"
      [] T \in {"unsigned int", "uint64_t"} -> "getUInt64"
      [] T = "string" -> "getString"
      [] OTHER -> "none"

\* ------------------------------------------------------------ result sets
\* A cell of a result row is what the driver's four accessors answer on it.
Cell(d, i, u, s) == [getDouble |-> d, getInt64 |-> i, getUInt64 |-> u, getString |-> s]

SampleCells ==
    << \* the integer 7
       Cell(Dbl(0, 1025, <<6144, 0, 0, 0>>), <<0, 0, 0, 7>>, <<0, 0, 0, 7>>, "7"),
       \* the integer -1
       Cell(Dbl(1, 1023, <<0, 0, 0, 0>>), <<65535, 65535, 65535, 65535>>,
            <<65535, 65535, 65535, 65535>>, "-1"),
       \* the integer 2^32 + 5: fits neither int nor float
       Cell(Dbl(0, 1055, <<0, 0, 640, 0>>), <<0, 1, 0, 5>>, <<0, 1, 0, 5>>, "4294967301"),
       \* the text "ab"
       Cell(Dbl(0, 0, <<0, 0, 0, 0>>), <<0, 0, 0, 0>>, <<0, 0, 0, 0>>, "ab") >>

\* Rows are named by number; CellAt(r, c) is the cell of row r in column c.
RowIds == {1, 2}
CellAt(r, c) == SampleCells[((r + c - 2) % Len(SampleCells)) + 1]

\* The result sets a statement can produce: up to MaxRows rows in any order,
\* repeats included.
RowSeqs == UNION {[1..n -> RowIds] : n \in 0..MaxRows}

\* The slot lists execute_query_values is instantiated with.
ValuesTypes == {"int", "string", "short"}
SlotTypeSeqs == UNION {[1..n -> ValuesTypes] : n \in 1..MaxSlots}

\* no result set held (an empty shared_ptr) / no value yet
NULL == [null |-> TRUE]

\* What a caller's variable of type T holds before the call.
PriorVal(T) ==
    CASE T = "float" -> [s |-> 0, e |-> 127, f |-> <<4096, 0>>]
      [] T = "double" -> Dbl(0, 1023, <<4096, 0, 0, 0>>)
      [] T \in {"int", "unsigned int"} -> <<0, 42>>
      [] T \in {"int64_t", "uint64_t"} -> <<0, 0, 0, 42>>
      [] T = "string" -> "prior"
      [] OTHER -> <<42>>

\* ------------------------------------------------------------------ state
VARIABLES
    conn_,      \* the native session behind conn_: "alive" or "dropped"
    result_,    \* the current result handle: NULL or [rows, pos, gen]
    prep_stmt_, \* the prepared handle: NULL or [h], h naming the statement object
    stmt_,      \* the ad-hoc statement handle: [h]
    conn_uuid_, \* the connection id
    op,         \* the public operation running or last run
    pc,         \* its position; "done" on return, "idle" between calls, "crashed"
    targs,      \* its template arguments: the slot types
    val,        \* the caller's output slots (execute_query_value/_values)
    vec,        \* the caller's output sequence (execute_query_column)
    vec0,       \* what vec held when the call started
    idx,        \* raw_query_value's column index
    ret_flag,   \* execute_query_column's local
    ret,        \* the call's outcome
    written,    \* the slots assigned during the call
    trace       \* the driver calls of the call, in order, with their answers

vars == <<conn_, result_, prep_stmt_, stmt_, conn_uuid_, op, pc, targs, val, vec, vec0, idx,
          ret_flag, ret, written, trace>>

QueryOps == {"execute_query_column", "execute_query_value", "execute_query_values"}

Ev(f, i, r) == [f |-> f, idx |-> i, r |-> r]

Init ==
    /\ conn_ = "alive"
    /\ result_ = NULL
    /\ prep_stmt_ = NULL
    /\ stmt_ = [h |-> 0]
    /\ conn_uuid_ = 1
    /\ op = "none"
    /\ pc = "idle"
    /\ targs = <<>>
    /\ val = <<>>
    /\ vec = <<>>
    /\ vec0 = <<>>
    /\ idx = 0
    /\ ret_flag = FALSE
    /\ ret = "none"
    /\ written = {}
    /\ trace = <<>>

\* The session drops between two calls (server restart, network loss).
SessionDrops ==
    /\ pc = "idle"
    /\ conn_ = "alive"
    /\ conn_' = "dropped"
    /\ UNCHANGED <<result_, prep_stmt_, stmt_, conn_uuid_, op, pc, targs, val, vec, vec0, idx,
                   ret_flag, ret, written, trace>>

\* A call is entered: its locals are fresh, the members are as the last call
\* left them.  The held result set, if any, is now one of an earlier query.
Enter(o, ts, v0) ==
    /\ pc = "idle"
    /\ op' = o
    /\ pc' = "isValid"
    /\ targs' = ts
    /\ val' = IF o = "execute_query_column" THEN <<>>
              ELSE [k \in 1..Len(ts) |-> PriorVal(ts[k])]
    /\ vec' = v0
    /\ vec0' = v0
    /\ idx' = 0
    /\ ret_flag' = FALSE
    /\ ret' = "none"
    /\ written' = {}
    /\ trace' = <<>>
    /\ result_' = IF result_ = NULL THEN NULL ELSE [result_ EXCEPT !.gen = "old"]
    /\ UNCHANGED <<conn_, prep_stmt_, stmt_, conn_uuid_>>

Call_execute_query_column ==
    \E T \in Types : \E v0 \in {<<>>, <<PriorVal(T)>>} :
        Enter("execute_query_column", <<T>>, v0)

Call_execute_query_value ==
    \E T \in Types : Enter("execute_query_value", <<T>>, <<>>)

Call_execute_query_values ==
    \E ts \in SlotTypeSeqs : Enter("execute_query_values", ts, <<>>)

\* faulty variant: the handler reports what had been extracted so far
CatchReturnsFlag ==
    /\ ret' = IF ret_flag THEN "true" ELSE "false"
    /\ pc' = "done"

\* catch (sql::SQLException &e) { ...log...; return false; }
Catch ==
    /\ ret' = "false"
    /\ pc' = "done"

\* return b;
Return(b) ==
    /\ ret' = IF b THEN "true" ELSE "false"
    /\ pc' = "done"

\* The caller has the outcome; the call's arguments and locals are gone, the
\* members stay.
Leave ==
    /\ pc = "done"
    /\ op' = "none"
    /\ pc' = "idle"
    /\ targs' = <<>>
    /\ val' = <<>>
    /\ vec' = <<>>
    /\ vec0' = <<>>
    /\ idx' = 0
    /\ ret_flag' = FALSE
    /\ ret' = "none"
    /\ written' = {}
    /\ trace' = <<>>
    /\ UNCHANGED <<conn_, result_, prep_stmt_, stmt_, conn_uuid_>>

\* ------------------------------------------------- the shared prologue
\* Lines 129-133, 166-170, 213-217 are the same five statements.

Did(e) == trace' = Append(trace, e)

\* faulty variant: the answer of isValid() is not acted on
NeverReconnect(valid) == FALSE

\* if(!conn_->isValid()) conn_->reconnect();   -- the condition
NeedsReconnect(valid) == ~valid

\* conn_->isValid(): the driver pings the session, or throws.
CheckValid ==
    /\ pc = "isValid"
    /\ \/ /\ Did(Ev("isValid", 0, IF conn_ = "alive" THEN "true" ELSE "false"))
          /\ pc' = IF NeedsReconnect(conn_ = "alive") THEN "reconnect" ELSE "execute"
          /\ UNCHANGED ret
       \/ /\ Did(Ev("isValid", 0, "throw"))
          /\ Catch
    /\ UNCHANGED <<conn_, result_, prep_stmt_, stmt_, conn_uuid_, op, targs, val, vec, vec0, idx,
                   ret_flag, written>>

\* conn_->reconnect(): bool.  The driver re-establishes the session and
\* answers true, answers false (the session stays down), or throws.  The
\* statement discards the answer.
Reconnect ==
    /\ pc = "reconnect"
    /\ \/ /\ Did(Ev("reconnect", 0, "true"))
          /\ conn_' = "alive"
          /\ pc' = "execute"
          /\ UNCHANGED ret
       \/ /\ Did(Ev("reconnect", 0, "false"))
          /\ pc' = "execute"
          /\ UNCHANGED <<conn_, ret>>
       \/ /\ Did(Ev("reconnect", 0, "throw"))
          /\ Catch
          /\ UNCHANGED conn_
    /\ UNCHANGED <<result_, prep_stmt_, stmt_, conn_uuid_, op, targs, val, vec, vec0, idx,
                   ret_flag, written>>

\* stmt_->execute(sql): the statement is dispatched.  It runs (the session is
\* up by then: the client library may have re-established it) or the driver
\* throws.
Execute ==
    /\ pc = "execute"
    /\ \/ /\ Did(Ev("execute", 0, "ok"))
          /\ conn_' = "alive"
          /\ pc' = "getResultSet"
          /\ UNCHANGED ret
       \/ /\ Did(Ev("execute", 0, "throw"))
          /\ Catch
          /\ UNCHANGED conn_
    /\ UNCHANGED <<result_, prep_stmt_, stmt_, conn_uuid_, op, targs, val, vec, vec0, idx,
                   ret_flag, written>>

\* result_.reset(stmt_->getResultSet()): the driver hands over the result set
\* of the statement just run, a null pointer when the statement produced
\* none, or throws before reset runs.
GetResultSet ==
    /\ pc = "getResultSet"
    /\ \/ /\ \E rows \in RowSeqs :
                /\ result_' = [rows |-> rows, pos |-> 0, gen |-> "cur"]
                /\ Did(Ev("getResultSet", 0, "set"))
          /\ pc' = "rowsCount"
          /\ UNCHANGED ret
       \/ /\ result_' = NULL
          /\ Did(Ev("getResultSet", 0, "null"))
          /\ pc' = "rowsCount"
          /\ UNCHANGED ret
       \/ /\ Did(Ev("getResultSet", 0, "throw"))
          /\ Catch
          /\ UNCHANGED result_
    /\ UNCHANGED <<conn_, prep_stmt_, stmt_, conn_uuid_, op, targs, val, vec, vec0, idx,
                   ret_flag, written>>

\* result_->... on an empty shared_ptr: BOOST_ASSERT(px != 0) aborts, or with
\* assertions compiled out the call goes through a null pointer.
NullDeref ==
    /\ pc = "rowsCount"
    /\ result_ = NULL
    /\ pc' = "crashed"
    /\ ret' \in {"abort", "segv"}
    /\ UNCHANGED <<conn_, result_, prep_stmt_, stmt_, conn_uuid_, op, targs, val, vec, vec0, idx,
                   ret_flag, written, trace>>

\* faulty variant: the output sequence is not cleared
KeepVec(v) == v

\* vec.clear();
ClearVec(v) == <<>>

\* faulty variant: execute_query_column clears vec before the row count test
RowsCountZeroClearsFirst ==
    /\ pc = "rowsCount"
    /\ result_ # NULL
    /\ vec' = IF op = "execute_query_column" THEN <<>> ELSE vec
    /\ \/ /\ Did(Ev("rowsCount", 0, "count"))
          /\ IF Len(result_.rows) = 0
             THEN Return(FALSE)
             ELSE /\ pc' = IF op = "execute_query_column" THEN "next" ELSE "rowsCount1"
                  /\ UNCHANGED ret
       \/ /\ Did(Ev("rowsCount", 0, "throw"))
          /\ Catch
    /\ UNCHANGED <<conn_, result_, prep_stmt_, stmt_, conn_uuid_, op, targs, val,
                   vec0, idx, ret_flag, written>>

\* if (result_->rowsCount() == 0) return false;
\* and, in execute_query_column, vec.clear(); T r_val; bool ret_flag = false;
RowsCountZero ==
    /\ pc = "rowsCount"
    /\ result_ # NULL
    /\ \/ /\ Did(Ev("rowsCount", 0, "count"))
          /\ IF Len(result_.rows) = 0
             THEN Return(FALSE) /\ UNCHANGED vec
             ELSE IF op = "execute_query_column"
                  THEN pc' = "next" /\ vec' = ClearVec(vec) /\ UNCHANGED ret
                  ELSE pc' = "rowsCount1" /\ UNCHANGED <<vec, ret>>
       \/ /\ Did(Ev("rowsCount", 0, "throw"))
          /\ Catch
          /\ UNCHANGED vec
    /\ UNCHANGED <<conn_, result_, prep_stmt_, stmt_, conn_uuid_, op, targs, val, vec0, idx,
                   ret_flag, written>>

\* faulty variant: any non-empty result set is accepted and its first row used
TakesFirstRow(n) == FALSE

\* if (result_->rowsCount() != 1)   -- the condition
NotOneRow(n) == n # 1

\* if (result_->rowsCount() != 1) { log << result_->rowsCount(); return false; }
\* (execute_query_value and execute_query_values only)
RowsCountOne ==
    /\ pc = "rowsCount1"
    /\ \/ /\ NotOneRow(Len(result_.rows))
          /\ \E logged \in {"count", "throw"} :
                trace' = trace \o <<Ev("rowsCount", 0, "count"), Ev("rowsCount", 0, logged)>>
          /\ Return(FALSE)
       \/ /\ ~NotOneRow(Len(result_.rows))
          /\ Did(Ev("rowsCount", 0, "count"))
          /\ pc' = "next"
          /\ UNCHANGED ret
       \/ /\ Did(Ev("rowsCount", 0, "throw"))
          /\ Catch
    /\ UNCHANGED <<conn_, result_, prep_stmt_, stmt_, conn_uuid_, op, targs, val, vec, vec0, idx,
                   ret_flag, written>>

\* faulty variant: the body runs whatever next() answered
EntersAnyway(more) == TRUE

\* while (result_->next()) / if (result_->next())   -- the condition
EntersBody(more) == more

\* result_->next(): the cursor moves to the next row and the driver answers
\* whether there is one, or throws.
\*   execute_query_column: while (result_->next()) {...} return ret_flag;
\*   the other two:        if (result_->next()) return raw_query_value(1, ...);
\*                         return false;
Advance ==
    /\ pc = "next"
    /\ \/ LET more == result_.pos < Len(result_.rows)
          IN  /\ result_' = [result_ EXCEPT !.pos =
                                IF more THEN @ + 1 ELSE Len(result_.rows) + 1]
              /\ Did(Ev("next", 0, IF more THEN "true" ELSE "false"))
              /\ IF EntersBody(more)
                 THEN pc' = "extract" /\ idx' = 1 /\ UNCHANGED ret
                 ELSE /\ Return(IF op = "execute_query_column" THEN ret_flag ELSE FALSE)
                      /\ UNCHANGED idx
       \/ /\ Did(Ev("next", 0, "throw"))
          /\ Catch
          /\ UNCHANGED <<result_, idx>>
    /\ UNCHANGED <<conn_, prep_stmt_, stmt_, conn_uuid_, op, targs, val, vec, vec0,
                   ret_flag, written>>

\* raw_query_value(idx, val) on the row the cursor is on: the typeid chain
\* (or the std::string specialization) picks the accessor, the accessor's
\* answer is cast to T and assigned; the final else returns false.
raw_query_value(i, T, row) ==
    LET a == Accessor(T)
    IN  IF a = "none"
        THEN [ok |-> FALSE, acc |-> a]
        ELSE [ok |-> TRUE, acc |-> a, v |-> static_cast(T, CellAt(row, i)[a])]

\* faulty variant: the recursion passes idx on unchanged
SameIdx(i) == i

\* return raw_query_value(idx+1, rest ...);   -- the column of the next slot
NextIdx(i) == i + 1

\* What follows one raw_query_value(idx, val) that returned ok:
\*   execute_query_column: push_back on true, then the next row;
\*   execute_query_value:  return it;
\*   execute_query_values: raw_query_value(idx, val, rest...) drops the head's
\*                         answer and returns the tail's, so only the last
\*                         slot's answer is returned.
AfterExtract(ok) ==
    CASE op = "execute_query_column" ->
            /\ pc' = "next"
            /\ ret_flag' = (ret_flag \/ ok)
            /\ UNCHANGED <<idx, ret>>
      [] op = "execute_query_value" ->
            /\ Return(ok)
            /\ UNCHANGED <<idx, ret_flag>>
      [] op = "execute_query_values" ->
            IF idx < Len(targs)
            THEN /\ idx' = NextIdx(idx)
                 /\ pc' = "extract"
                 /\ UNCHANGED <<ret, ret_flag>>
            ELSE /\ Return(ok)
                 /\ UNCHANGED <<idx, ret_flag>>

\* The cursor is on a row.
OnRow == result_.pos \in 1..Len(result_.rows)

\* One raw_query_value(idx, val).  An accessor called while the cursor is on
\* no row throws (the driver checks the cursor position first).
Extract ==
    /\ pc = "extract"
    /\ LET slot == IF op = "execute_query_column" THEN 1 ELSE idx
           row == IF OnRow THEN result_.rows[result_.pos] ELSE 1
           r == raw_query_value(idx, targs[slot], row)
       IN  \/ /\ ~r.ok
              /\ AfterExtract(FALSE)
              /\ UNCHANGED <<val, vec, written, trace>>
           \/ /\ r.ok
              /\ OnRow
              /\ Did(Ev(r.acc, idx, "value"))
              /\ IF op = "execute_query_column"
                 THEN vec' = Append(vec, r.v) /\ UNCHANGED <<val, written>>
                 ELSE /\ val' = [val EXCEPT ![slot] = r.v]
                      /\ written' = written \cup {slot}
                      /\ UNCHANGED vec
              /\ AfterExtract(TRUE)
           \/ /\ r.ok
              /\ Did(Ev(r.acc, idx, "throw"))
              /\ Catch
              /\ UNCHANGED <<val, vec, written, idx, ret_flag>>
    /\ UNCHANGED <<conn_, result_, prep_stmt_, stmt_, conn_uuid_, op, targs, vec0>>

\* faulty variant: preparing a statement also drops the current result
create_prep_stmt_drops_result ==
    /\ pc = "idle"
    /\ op' = "create_prep_stmt"
    /\ pc' = "done"
    /\ prep_stmt_' = IF prep_stmt_ = [h |-> 1] THEN [h |-> 2] ELSE [h |-> 1]
    /\ result_' = NULL
    /\ ret' = "void"
    /\ trace' = <<Ev("prepareStatement", 0, "stmt")>>
    /\ UNCHANGED <<conn_, stmt_, conn_uuid_, targs, val, written, vec, vec0, idx,
                   ret_flag>>

\* void create_prep_stmt(sql) { prep_stmt_.reset(conn_->prepareStatement(sql)); }
\* No try block: what prepareStatement throws leaves the call as an
\* exception, before reset runs.
create_prep_stmt ==
    /\ pc = "idle"
    /\ op' = "create_prep_stmt"
    /\ pc' = "done"
    /\ \/ /\ prep_stmt_' = IF prep_stmt_ = [h |-> 1] THEN [h |-> 2] ELSE [h |-> 1]
          /\ ret' = "void"
          /\ trace' = <<Ev("prepareStatement", 0, "stmt")>>
       \/ /\ UNCHANGED prep_stmt_
          /\ ret' = "exception"
          /\ trace' = <<Ev("prepareStatement", 0, "throw")>>
    /\ UNCHANGED <<conn_, result_, stmt_, conn_uuid_, targs, val, written, vec,
                   vec0, idx, ret_flag>>

\* The ids the pool hands out.
UUIDs == {1, 2}

\* void set_uuid(size_t uuid) { conn_uuid_ = uuid; }   (called by the pool)
set_uuid ==
    /\ pc = "idle"
    /\ \E uuid \in UUIDs \ {conn_uuid_} : conn_uuid_' = uuid
    /\ UNCHANGED <<conn_, result_, prep_stmt_, stmt_, op, pc, targs, val, vec, vec0,
                   idx, ret_flag, ret, written, trace>>

\* size_t get_uuid() { return conn_uuid_; }
get_uuid == conn_uuid_

\* sql::ResultSet* get_result_set() { return result_.get(); }
get_result_set == result_

Next ==
    \/ SessionDrops
    \/ Leave
    \/ Call_execute_query_column
    \/ Call_execute_query_value
    \/ Call_execute_query_values
    \/ create_prep_stmt
    \/ set_uuid
    \/ CheckValid
    \/ Reconnect
    \/ Execute
    \/ GetResultSet
    \/ NullDeref
    \/ RowsCountZero
    \/ RowsCountOne
    \/ Advance
    \/ Extract

Spec == Init /\ [][Next]_vars

TypeOK ==
    /\ conn_ \in {"alive", "dropped"}
    /\ pc \in {"idle", "done", "isValid", "reconnect", "execute", "getResultSet",
               "rowsCount", "rowsCount1", "next", "extract", "crashed"}
    /\ op \in QueryOps \cup {"none", "create_prep_stmt"}
    /\ ret \in {"none", "true", "false", "void", "exception", "abort", "segv"}
    /\ result_ # NULL => result_.pos \in 0..(Len(result_.rows) + 1)

\* ------------------------------------------------------------ properties
AccessorNames == {"getDouble", "getInt64", "getUInt64", "getString"}

\* positions of the trace where the driver function f was called
Events(f) == {i \in 1..Len(trace) : trace[i].f = f}

\* positions of the trace where a column was read
Reads == {i \in 1..Len(trace) : trace[i].f \in AccessorNames}

\* some driver call of this call threw
Threw == \E i \in 1..Len(trace) : trace[i].r = "throw"

\* this call's dispatch produced the result set the handle holds
OwnResult == result_ # NULL /\ result_.gen = "cur" /\ Events("getResultSet") # {}

\* the slot a column read at index c is for
SlotOf(c) == IF op = "execute_query_column" THEN 1 ELSE c

\* C1: execute_query_values with n >= 2 slots returns true only if every one
\* of the n slot extractions succeeded (each slot was assigned from its column).
C1_ShortCircuit ==
    (pc = "done" /\ op = "execute_query_values" /\ Len(targs) >= 2 /\ ret = "true")
        => \A k \in 1..Len(targs) : k \in written

\* C2: execute_query_value and execute_query_values return true only when the
\* result set of the executed query has exactly one row; with zero rows or
\* with two or more they return false, no column is read and no output slot
\* is written.
C2_ExactlyOneRow ==
    op \in {"execute_query_value", "execute_query_values"} =>
        /\ ret = "true" => (OwnResult /\ Len(result_.rows) = 1)
        /\ (pc = "done" /\ OwnResult /\ Len(result_.rows) # 1) =>
              /\ ret = "false"
              /\ written = {}
              /\ Reads = {}
              /\ \A k \in 1..Len(targs) : val[k] = PriorVal(targs[k])

C2_Witness ==
    /\ pc = "done"
    /\ op \in {"execute_query_value", "execute_query_values"}
    /\ OwnResult
    /\ Len(result_.rows) >= 2
    /\ ~Threw
    /\ targs[1] \in SupportedTypes
    /\ ret = "false"

\* C3: on a dropped session a call makes exactly one reconnect attempt before
\* the statement is executed, and if that attempt fails (the driver throws, or
\* reconnect answers false) the call returns false.
C3_ReconnectFailureFails ==
    op \in QueryOps =>
        /\ Cardinality(Events("reconnect")) <= 1
        /\ \A i \in Events("execute") :
              trace[1].r = "false" => Events("reconnect") = {2}
        /\ (pc = "done" /\ \E i \in Events("reconnect") : trace[i].r \in {"false", "throw"})
              => ret = "false"

\* C4: in every call the validity check is the first driver call and happens
\* once, no statement is dispatched before the check has answered, and
\* reconnect is invoked if and only if the check answered "not alive".
C4_CheckPrecedesDispatch ==
    op \in QueryOps =>
        /\ trace # <<>> => trace[1].f = "isValid"
        /\ Events("isValid") \subseteq {1}
        /\ \A i \in Events("execute") :
              i >= 2 /\ trace[1].f = "isValid" /\ trace[1].r \in {"true", "false"}
        /\ \A i \in Events("reconnect") : i = 2 /\ trace[1].r = "false"
        /\ (pc # "reconnect" /\ trace # <<>> /\ trace[1].r = "false")
              => Events("reconnect") = {2}
        /\ pc \notin {"idle", "isValid"} => Events("isValid") = {1}

C4_Witness ==
    /\ pc = "done"
    /\ op = "execute_query_column"
    /\ ret = "true"
    /\ Events("reconnect") = {2}
    /\ Events("execute") = {3}

\* C5: no driver exception leaves a public operation: every operation returns
\* normally, and a boolean operation in which a driver call threw returns false.
C5_NoExceptionEscapes ==
    /\ ret # "exception"
    /\ (pc = "done" /\ op \in QueryOps /\ Threw) => ret = "false"

\* the column reads of this call that delivered a value
Extracted == {i \in Reads : trace[i].r = "value"}

\* the value-preserving widening of a T value to its accessor's type
Widen(T, v) ==
    CASE T = "int" -> IF v[1] >= 32768 THEN <<65535, 65535, v[1], v[2]>>
                                       ELSE <<0, 0, v[1], v[2]>>
      [] T = "unsigned int" -> <<0, 0, v[1], v[2]>>
      [] T = "float" -> IF v.e = 0 THEN Dbl(v.s, 0, <<0, 0, 0, 0>>)
                        ELSE Dbl(v.s, v.e - 127 + 1023, <<v.f[1], v.f[2] * 8, 0, 0>>)
      [] OTHER -> v

\* the accessor answer x is the widening of some T value
Representable(T, x) ==
    CASE T = "int" -> \/ x[3] >= 32768 /\ x[1] = 65535 /\ x[2] = 65535
                      \/ x[3] < 32768 /\ x[1] = 0 /\ x[2] = 0
      [] T = "unsigned int" -> x[1] = 0 /\ x[2] = 0
      [] T = "float" -> \/ x.e = 0
                        \/ /\ x.e - 1023 \in -126..127
                           /\ x.f[2] % 8 = 0 /\ x.f[3] = 0 /\ x.f[4] = 0
      [] OTHER -> TRUE

\* what the driver answers for column c of the i-th row of the held result
\* set, through the accessor of T
Answer(T, i, c) == CellAt(result_.rows[i], c)[Accessor(T)]

\* C6 as stated: execute_query_column returns true if and only if at least one
\* row was extracted into the output sequence, also when a later row's read
\* fails by a driver failure.
C6_TrueIffSomeRowExtracted ==
    (pc = "done" /\ op = "execute_query_column") =>
        (ret = "true" <=> Extracted # {})

\* C6 amended: execute_query_column returns true if and only if at least one
\* row was extracted into the output sequence and no driver call of the call
\* failed; when rows were extracted and a later driver call fails, the call
\* returns false and the output sequence holds exactly the rows extracted
\* before the failure, in order.
C6_ColumnResult ==
    (pc = "done" /\ op = "execute_query_column") =>
        /\ ret = "true" <=> (Extracted # {} /\ ~Threw)
        /\ Extracted # {} =>
              /\ Len(vec) = Cardinality(Extracted)
              /\ \A i \in 1..Len(vec) :
                    vec[i] = static_cast(targs[1], Answer(targs[1], i, 1))

C6_Witness ==
    /\ pc = "done"
    /\ op = "execute_query_column"
    /\ Cardinality(Extracted) = 2
    /\ trace[Len(trace)].f \in AccessorNames
    /\ trace[Len(trace)].r = "throw"
    /\ ret = "false"
    /\ Len(vec) = 2

\* C7: for a supported element type and a result set of n >= 1 rows, with no
\* driver failure, execute_query_column returns true and the output sequence
\* is the n rows in result order, each once, whatever it held before.
C7_ColumnAllRows ==
    (pc = "done" /\ op = "execute_query_column" /\ targs[1] \in SupportedTypes
       /\ ~Threw /\ OwnResult /\ Len(result_.rows) >= 1) =>
        /\ ret = "true"
        /\ Len(vec) = Len(result_.rows)
        /\ \A i \in 1..Len(vec) :
              /\ vec[i] = static_cast(targs[1], Answer(targs[1], i, 1))
              /\ Representable(targs[1], Answer(targs[1], i, 1))
                    => Widen(targs[1], vec[i]) = Answer(targs[1], i, 1)

C7_Witness ==
    /\ pc = "done"
    /\ op = "execute_query_column"
    /\ targs[1] = "int"
    /\ ~Threw
    /\ OwnResult
    /\ result_.rows = <<2, 1, 2>>
    /\ vec0 # <<>>
    /\ ret = "true"
    /\ vec = << <<65535, 65535>>, <<0, 7>>, <<65535, 65535>> >>

\* C8: for a slot type outside the supported set, single-column extraction
\* returns false without throwing, calls no column accessor and leaves the
\* slot unwritten; execute_query_value on a one-row result with such a type
\* returns false.
C8_UnsupportedType ==
    op \in QueryOps =>
        /\ \A i \in Reads : targs[SlotOf(trace[i].idx)] \in SupportedTypes
        /\ \A k \in 1..Len(val) :
              targs[k] \notin SupportedTypes =>
                  k \notin written /\ val[k] = PriorVal(targs[k])
        /\ (op = "execute_query_column" /\ targs[1] \notin SupportedTypes)
              => (vec = vec0 \/ vec = <<>>)
        /\ ret # "exception"
        /\ (pc = "done" /\ op = "execute_query_value"
              /\ targs[1] \notin SupportedTypes) => ret = "false"

C8_Witness ==
    /\ pc = "done"
    /\ op = "execute_query_value"
    /\ targs[1] \in UnsupportedTypes
    /\ OwnResult
    /\ Len(result_.rows) = 1
    /\ result_.pos = 1
    /\ ~Threw
    /\ ret = "false"

\* a slot whose extraction failed: its type is unsupported, or its accessor threw
Failed(k) ==
    \/ targs[k] \notin SupportedTypes
    \/ \E i \in Reads : trace[i].idx = k /\ trace[i].r = "throw"

\* C9: in execute_query_values no slot after the first failing slot is
\* written and no column after it is read.
C9_NoWriteAfterFailure ==
    op = "execute_query_values" =>
        \A k \in 1..Len(targs) : Failed(k) =>
            \A j \in (k + 1)..Len(targs) :
                /\ j \notin written
                /\ val[j] = PriorVal(targs[j])
                /\ \A i \in Reads : trace[i].idx # j

\* C10: every row and column read inside a call comes from the result set of
\* that call's own dispatch, and once a call that dispatched a statement has
\* returned, get_result_set does not yield the result set of an earlier query.
C10_ResultSuperseded ==
    op \in QueryOps =>
        /\ (Reads # {} \/ Events("next") # {} \/ Events("rowsCount") # {}) => OwnResult
        /\ (pc = "done" /\ Events("execute") # {}) =>
              (get_result_set = NULL \/ get_result_set.gen = "cur")

\* C11: when the result set is exactly one row whose column 1 holds a value v
\* of the supported type T (the accessor of T answers v widened), and no driver
\* call fails, execute_query_value<T> returns true and the slot equals v.
C11_RoundTrip ==
    (pc = "done" /\ op = "execute_query_value" /\ targs[1] \in SupportedTypes
       /\ ~Threw /\ OwnResult /\ Len(result_.rows) = 1
       /\ Representable(targs[1], Answer(targs[1], 1, 1))) =>
        /\ ret = "true"
        /\ written = {1}
        /\ Widen(targs[1], val[1]) = Answer(targs[1], 1, 1)

C11_Witness ==
    /\ pc = "done"
    /\ op = "execute_query_value"
    /\ targs[1] = "int"
    /\ ~Threw
    /\ OwnResult
    /\ result_.rows = <<2>>
    /\ ret = "true"
    /\ val[1] = <<65535, 65535>>

\* C12: create_prep_stmt replaces only the prepared handle (the ad-hoc
\* statement handle, the current result and the connection id stay as they
\* were), and no step of execute_query_column, execute_query_value or
\* execute_query_values changes the prepared handle.
C12_HandlesIndependent ==
    [][ /\ op' = "create_prep_stmt" =>
              /\ stmt_' = stmt_
              /\ result_' = result_
              /\ conn_uuid_' = conn_uuid_
              /\ ret' = "void" => (prep_stmt_' # NULL /\ prep_stmt_' # prep_stmt_)
        /\ op' \in QueryOps => (prep_stmt_' = prep_stmt_ /\ stmt_' = stmt_)
      ]_vars

C12_Witness ==
    /\ pc = "done"
    /\ op = "create_prep_stmt"
    /\ ret = "void"
    /\ prep_stmt_ = [h |-> 2]
    /\ result_ # NULL
    /\ conn_uuid_ = 2

\* the slots of this call all have supported types
AllSupported == \A k \in 1..Len(targs) : targs[k] \in SupportedTypes

\* C13: execute_query_values with n >= 1 supported-type slots on a one-row
\* result reads the columns 1, 2, ..., n, each once and in increasing order
\* (the i-th column read of the call is of column i, never of column 0 or of
\* a column beyond n), and writes slot k from column k for every k in 1..n.
C13_SequentialColumns ==
    (op = "execute_query_values" /\ AllSupported) =>
        /\ \A i \in Reads :
              /\ trace[i].idx = Cardinality({j \in Reads : j <= i})
              /\ trace[i].idx \in 1..Len(targs)
        /\ \A k \in written :
              val[k] = static_cast(targs[k], Answer(targs[k], 1, k))
        /\ (pc = "done" /\ ~Threw /\ OwnResult /\ Len(result_.rows) = 1) =>
              /\ ret = "true"
              /\ written = 1..Len(targs)
              /\ Cardinality(Reads) = Len(targs)

C13_Witness ==
    /\ pc = "done"
    /\ op = "execute_query_values"
    /\ targs = <<"int", "string", "int">>
    /\ ~Threw
    /\ OwnResult
    /\ result_.rows = <<2>>
    /\ ret = "true"
    /\ written = {1, 2, 3}
    /\ val = << <<65535, 65535>>, "4294967301", <<0, 0>> >>

\* C14: every column read goes through the one accessor that belongs to the
\* slot's type (double accessor for float and double, signed 64-bit for int
\* and int64, unsigned 64-bit for unsigned int and uint64, string accessor for
\* string), with the column index the extraction was given; each successful
\* extraction made exactly one accessor call; no other type reaches an accessor.
C14_ClosedDispatch ==
    op \in QueryOps =>
        /\ \A i \in Reads :
              LET T == targs[SlotOf(trace[i].idx)]
                  f == trace[i].f
              IN  /\ \/ T \in {"float", "double"} /\ f = "getDouble"
                     \/ T \in {"int", "int64_t"} /\ f = "getInt64"
                     \/ T \in {"unsigned int", "uint64_t"} /\ f = "getUInt64"
                     \/ T = "string" /\ f = "getString"
                  /\ op \in {"execute_query_column", "execute_query_value"}
                        => trace[i].idx = 1
        /\ op # "execute_query_column" =>
              /\ Cardinality(Extracted) = Cardinality(written)
              /\ \A k \in written :
                    Cardinality({i \in Extracted : trace[i].idx = k}) = 1
        /\ (op = "execute_query_column" /\ Extracted # {}) =>
              Len(vec) = Cardinality(Extracted)

C14_Witness ==
    /\ pc = "done"
    /\ op = "execute_query_value"
    /\ targs[1] = "unsigned int"
    /\ ret = "true"
    /\ written = {1}
    /\ \E i \in Extracted : trace[i].f = "getUInt64" /\ trace[i].idx = 1

\* C15: the current-result handle is never dereferenced while it is empty: at
\* every row-count query, cursor advance and column access of the three query
\* operations the handle holds a result set, and no call ends in a crash.
C15_NeverDerefNull ==
    op \in QueryOps =>
        /\ pc \in {"rowsCount", "rowsCount1", "next", "extract"} => result_ # NULL
        /\ pc # "crashed"

\* every column read of the call follows, with nothing but column reads in
\* between, a cursor advance of this call that answered true, made after the
\* call fetched its result set
ReadsOnRow ==
    \A i \in Reads :
        \E j \in Events("next") :
            /\ j < i
            /\ trace[j].r = "true"
            /\ \A m \in (j + 1)..(i - 1) : trace[m].f \in AccessorNames
            /\ \E g \in Events("getResultSet") : g < j /\ trace[g].r = "set"

\* C16 as stated: every column read follows a cursor advance that answered
\* true, with no further advance in between, and execute_query_value and
\* execute_query_values advance the cursor exactly once per call.
C16_AdvancesExactlyOnce ==
    op \in QueryOps =>
        /\ ReadsOnRow
        /\ (pc = "done" /\ op \in {"execute_query_value", "execute_query_values"})
              => Cardinality(Events("next")) = 1

\* C16 amended: every column read follows a cursor advance that answered
\* true, with no further advance in between; execute_query_value and
\* execute_query_values advance the cursor at most once per call, and exactly
\* once in every call that reads a column or that, without a driver failure,
\* found exactly one row.
C16_ReadsOnRow ==
    op \in QueryOps =>
        /\ ReadsOnRow
        /\ pc = "extract" => OnRow
        /\ op \in {"execute_query_value", "execute_query_values"} =>
              /\ Cardinality(Events("next")) <= 1
              /\ Reads # {} => Cardinality(Events("next")) = 1
              /\ (pc = "done" /\ ~Threw /\ OwnResult /\ Len(result_.rows) = 1)
                    => Cardinality(Events("next")) = 1

C16_Witness ==
    /\ pc = "done"
    /\ op = "execute_query_values"
    /\ Len(targs) = 2
    /\ Cardinality(Reads) = 2
    /\ Cardinality(Events("next")) = 1
    /\ ret = "true"

\* this call counted the rows of its result set and found at least one
GotRows ==
    /\ OwnResult
    /\ Len(result_.rows) >= 1
    /\ \E i \in Events("rowsCount") : trace[i].r = "count"

\* C17: execute_query_column leaves the caller's output sequence as it was
\* whenever it returns false because the result set has zero rows or because
\* the driver failed at the validity check, reconnect, dispatch or result
\* fetch; the sequence changes only after a non-empty result set was obtained.
C17_VecUntouchedOnEarlyFalse ==
    op = "execute_query_column" =>
        /\ ~GotRows => vec = vec0
        /\ (pc = "done" /\ ~GotRows) => ret = "false"
        /\ (pc = "done" /\ ret = "false"
              /\ \/ OwnResult /\ Len(result_.rows) = 0
                 \/ /\ trace[Len(trace)].r = "throw"
                    /\ trace[Len(trace)].f \in
                          {"isValid", "reconnect", "execute", "getResultSet"})
              => vec = vec0

C17_Witness ==
    /\ pc = "done"
    /\ op = "execute_query_column"
    /\ vec0 # <<>>
    /\ OwnResult
    /\ Len(result_.rows) = 0
    /\ ~Threw
    /\ ret = "false"
    /\ vec = vec0

====
